---- MODULE Spec2Model ----
(***************************************************************************)
(* odc-stats: the run-pq and save-tasks commands (odc/stats/_cli_run_pq.py *)
(* and odc/stats/_cli_save_tasks.py) and the water observation summary     *)
(* plugins StatsWofs and StatsWofsFullHistory (odc/stats/plugins/wofs.py). *)
(*                                                                         *)
(* Spec     : one command invocation after another (run-pq or save-tasks). *)
(* SpecWofs : one pixel of one task going through                          *)
(*            native_transform -> fuser -> reduce.                         *)
(***************************************************************************)
EXTENDS Integers, Sequences, FiniteSets, TLC

\* ------------------------------------------------------------------ bounds
MaxTasks == 2        \* largest number of tasks in a catalog file
MaxSel == 2          \* largest number of task selectors on the command line
MaxGroup == 3        \* largest number of observations sharing one solar day
MaxDays == 2         \* largest number of days (layers) in a time stack

VARIABLES
    \* ---- command line process
    cmd,                \* command being run: "none", "run-pq", "save-tasks"
    pc,                 \* position in the command's body
    exitCode,           \* process exit status, -1 while running
    failCause,          \* which fatal path ended the process, "none" otherwise
    lastExit,           \* class and exit status of the previous invocation
    \* ---- run-pq: options and arguments
    dryrun, overwrite, location_s3, selectors, ncat,
    \* ---- run-pq: locals and collaborators
    tasks,              \* `tasks` once it holds task indexes, <<>> before
    haveTasks,          \* `tasks` was rebound to a list of task indexes
    parserCalled,       \* parse_all_tasks was invoked
    sinkCreated,        \* S3COGSink was constructed
    verifyCount,        \* number of sink.verify_s3_credentials() calls
    sink_creds,         \* sink._creds: "none", "ok", "failed"
    streamCalled,       \* rdr.stream was invoked
    stream_tasks,       \* argument rdr.stream was invoked with (`_tasks`)
    pos,                \* number of tasks pulled from `_tasks`
    client,             \* "none", "started", "closed"
    s3Configured,       \* configure_s3_access was called
    processTasksCalled, \* process_tasks was invoked
    pqProcCalls,        \* number of pq_proc invocations
    existsCalls,        \* number of sink.exists invocations
    check_exists,       \* check_s3 / check_exists as bound for the loop:
                        \* "unset", "True", "False"
    calls,              \* what dry_run_proc called for the task pulled last
    results,            \* TaskResults yielded so far, in order
    taskErrors,         \* tasks whose handling raised
    writes,             \* tasks whose output was written
    \* ---- save-tasks: options and collaborators
    year, temporal_range, frequency, dataset_filter, destExists,
    tasksObj,           \* SaveTasks was constructed
    dcOpened,           \* Datacube(env=env) was opened
    saveCalled,         \* tasks.save was invoked
    \* ---- plugin pipeline, one pixel
    plugin,             \* "none", "wofs-summary", "wofs-summary-fh"
    wstage,             \* "idle", "load", "reduced"
    dilation,           \* StatsWofs._dilation
    water_in,           \* xx.water of the observation transformed last
    group,              \* native_transform outputs of the current solar day
    xx,                 \* time stack given to reduce
    nodata_attr,        \* xx.count_clear.nodata of the full-history input
    yy                  \* output of reduce

runOpts == <<dryrun, overwrite, location_s3, selectors, ncat>>
runState == <<tasks, haveTasks, parserCalled, sinkCreated, verifyCount,
              sink_creds,
              streamCalled, stream_tasks, pos, client, s3Configured,
              processTasksCalled, pqProcCalls, existsCalls, check_exists,
              calls, results, taskErrors, writes>>
saveOpts == <<year, temporal_range, frequency, dataset_filter, destExists>>
saveState == <<tasksObj, dcOpened, saveCalled>>
procState == <<cmd, pc, exitCode, failCause, lastExit>>
cliVars == <<procState, runOpts, runState, saveOpts, saveState>>
wofsVars == <<plugin, wstage, dilation, water_in, group, xx, nodata_attr,
             yy>>
vars == <<cliVars, wofsVars>>

\* ------------------------------------------------------------- helpers
Range(s) == {s[i] : i \in 1..Len(s)}

SeqsUpTo(S, n) == UNION {[1..k -> S] : k \in 0..n}

\* a selector token is a bare integer; -1 and any i >= N are out of range
Selectors == SeqsUpTo(-1..MaxTasks, MaxSel)

\* ------------------------------------------------- collaborators of run-pq
\* TaskReader.all_tiles: every task of the catalog file, in catalog order
AllTiles(n) == [i \in 1..n |-> i - 1]

RECURSIVE Dedup(_, _)
Dedup(s, seen) ==
    IF s = <<>> THEN <<>>
    ELSE IF Head(s) \in seen THEN Dedup(Tail(s), seen)
    ELSE <<Head(s)>> \o Dedup(Tail(s), seen \cup {Head(s)})

\* parse_all_tasks(tasks, all_tiles): the list of task indexes, or a
\* ValueError for the whole list when any one selector is not valid
ParseAllTasks(sel, n) ==
    IF \E i \in 1..Len(sel) : sel[i] < 0 \/ sel[i] >= n
    THEN [error |-> "ValueError", tasks |-> <<>>]
    ELSE [error |-> "none", tasks |-> Dedup(sel, {})]

\* SaveTasks(output, grid, ..., overwrite=...): refuses an existing
\* destination unless overwrite was requested
SaveTasksInit(exists, ow) ==
    IF exists /\ ~ow THEN "ValueError" ELSE "ok"

\* ------------------------------------------------------------ exit paths
\* class of failure of a fatal path
FailClass(cause) ==
    CASE cause \in {"selector", "range_parse"} -> "selector/parse"
      [] cause = "credential" -> "credential"
      [] cause \in {"ctor", "save_raise", "save_notok"} -> "catalog_save"
      [] OTHER -> "other"

NoExit == [class |-> "none", code |-> 0]

\* sys.exit(code) on the fatal path `cause`
SysExit(cause, code) ==
    /\ pc' = "exit"
    /\ exitCode' = code
    /\ failCause' = cause

\* an exception nobody catches: traceback, interpreter exits with status 1
Uncaught ==
    /\ pc' = "exit"
    /\ exitCode' = 1
    /\ failCause' = "uncaught"

\* falling off the end of the command
Return ==
    /\ pc' = "exit"
    /\ exitCode' = 0
    /\ failCause' = "none"

\* what the next invocation remembers of this one
Remember ==
    IF pc = "exit" /\ failCause # "none"
    THEN [class |-> FailClass(failCause), code |-> exitCode]
    ELSE NoExit

RunIdle ==
    /\ tasks = <<>> /\ haveTasks = FALSE /\ parserCalled = FALSE
    /\ sinkCreated = FALSE /\ verifyCount = 0 /\ sink_creds = "none"
    /\ streamCalled = FALSE /\ stream_tasks = <<>> /\ pos = 0
    /\ client = "none" /\ s3Configured = FALSE
    /\ processTasksCalled = FALSE /\ pqProcCalls = 0 /\ existsCalls = 0
    /\ check_exists = "unset" /\ calls = <<>>
    /\ results = <<>> /\ taskErrors = {} /\ writes = {}

SaveIdle ==
    /\ tasksObj = FALSE /\ dcOpened = FALSE /\ saveCalled = FALSE

RunOptsIdle ==
    /\ dryrun = FALSE /\ overwrite = FALSE /\ location_s3 = FALSE
    /\ selectors = <<>> /\ ncat = 0

SaveOptsIdle ==
    /\ year = "none" /\ temporal_range = "none" /\ frequency = "none"
    /\ dataset_filter = "none" /\ destExists = FALSE

WofsIdle ==
    /\ plugin = "none" /\ wstage = "idle" /\ dilation = 0 /\ water_in = 0
    /\ group = <<>> /\ xx = <<>> /\ nodata_attr = 0
    /\ yy = [count_wet |-> 0, count_clear |-> 0,
             frequency |-> [nan |-> TRUE, num |-> 0, den |-> 1]]

CliIdle ==
    /\ cmd = "none" /\ pc = "idle" /\ exitCode = -1 /\ failCause = "none"
    /\ lastExit = NoExit
    /\ RunOptsIdle /\ RunIdle /\ SaveOptsIdle /\ SaveIdle

\* the locals of a fresh invocation
RunReset ==
    /\ tasks' = <<>> /\ haveTasks' = FALSE /\ parserCalled' = FALSE
    /\ sinkCreated' = FALSE /\ verifyCount' = 0 /\ sink_creds' = "none"
    /\ streamCalled' = FALSE /\ stream_tasks' = <<>> /\ pos' = 0
    /\ client' = "none" /\ s3Configured' = FALSE
    /\ processTasksCalled' = FALSE /\ pqProcCalls' = 0 /\ existsCalls' = 0
    /\ check_exists' = "unset" /\ calls' = <<>>
    /\ results' = <<>> /\ taskErrors' = {} /\ writes' = {}

SaveReset ==
    /\ tasksObj' = FALSE /\ dcOpened' = FALSE /\ saveCalled' = FALSE

SaveOptsReset ==
    /\ year' = "none" /\ temporal_range' = "none" /\ frequency' = "none"
    /\ dataset_filter' = "none" /\ destExists' = FALSE

\* ================================================================ run-pq
\* the command is entered: options bound, product and TaskReader created
run_pq ==
    /\ pc \in {"idle", "exit"}
    /\ cmd' = "run-pq"
    /\ pc' = "select"
    /\ exitCode' = -1
    /\ failCause' = "none"
    /\ lastExit' = Remember
    /\ dryrun' \in BOOLEAN
    /\ overwrite' \in BOOLEAN
    /\ location_s3' \in BOOLEAN
    /\ ncat' \in 0..MaxTasks
    /\ selectors' = <<>>
    /\ RunReset /\ SaveOptsReset /\ SaveReset
    /\ UNCHANGED wofsVars

\* the selectors that do resolve, in order
ValidOnly(sel, n) ==
    Dedup(SelectSeq(sel, LAMBDA t : t >= 0 /\ t < n), {})

\* SelectTasks with the ValueError swallowed: the run goes on with the
\* selectors that did parse
SelectTasks_partial ==
    /\ cmd = "run-pq" /\ pc = "select"
    /\ \E sel \in Selectors :
        /\ selectors' = sel
        /\ parserCalled' = (Len(sel) # 0)
        /\ tasks' = IF Len(sel) = 0 THEN AllTiles(ncat)
                    ELSE ValidOnly(sel, ncat)
        /\ haveTasks' = TRUE
        /\ pc' = "sink"
        /\ UNCHANGED <<exitCode, failCause>>
    /\ UNCHANGED <<cmd, lastExit, dryrun, overwrite, location_s3, ncat,
                   sinkCreated, verifyCount, sink_creds,
                   streamCalled, stream_tasks, pos, client, s3Configured,
                   processTasksCalled, pqProcCalls, existsCalls,
                   check_exists, calls,
                   results,
                   taskErrors, writes, saveOpts, saveState, wofsVars>>

\* SelectTasks without the len(tasks) == 0 branch: an empty selector list
\* goes to the parser as well
SelectTasks_parse_empty ==
    /\ cmd = "run-pq" /\ pc = "select"
    /\ \E sel \in Selectors :
        /\ selectors' = sel
        /\ parserCalled' = TRUE
        /\ LET r == ParseAllTasks(sel, ncat) IN
           IF r.error = "ValueError"
           THEN /\ SysExit("selector", 1)
                /\ UNCHANGED <<tasks, haveTasks>>
           ELSE /\ tasks' = r.tasks
                /\ haveTasks' = TRUE
                /\ pc' = "sink"
                /\ UNCHANGED <<exitCode, failCause>>
    /\ UNCHANGED <<cmd, lastExit, dryrun, overwrite, location_s3, ncat,
                   sinkCreated, verifyCount, sink_creds,
                   streamCalled, stream_tasks, pos, client, s3Configured,
                   processTasksCalled, pqProcCalls, existsCalls,
                   check_exists, calls,
                   results,
                   taskErrors, writes, saveOpts, saveState, wofsVars>>

\* the `tasks` argument: if len(tasks) == 0: tasks = rdr.all_tiles
\* else: try parse_all_tasks ... except ValueError: sys.exit(1)
SelectTasks ==
    /\ cmd = "run-pq" /\ pc = "select"
    /\ \E sel \in Selectors :
        /\ selectors' = sel
        /\ IF Len(sel) = 0
           THEN /\ tasks' = AllTiles(ncat)
                /\ haveTasks' = TRUE
                /\ pc' = "sink"
                /\ UNCHANGED <<parserCalled, exitCode, failCause>>
           ELSE /\ parserCalled' = TRUE
                /\ LET r == ParseAllTasks(sel, ncat) IN
                   IF r.error = "ValueError"
                   THEN /\ SysExit("selector", 1)
                        /\ UNCHANGED <<tasks, haveTasks>>
                   ELSE /\ tasks' = r.tasks
                        /\ haveTasks' = TRUE
                        /\ pc' = "sink"
                        /\ UNCHANGED <<exitCode, failCause>>
    /\ UNCHANGED <<cmd, lastExit, dryrun, overwrite, location_s3, ncat,
                   sinkCreated, verifyCount, sink_creds,
                   streamCalled, stream_tasks, pos, client, s3Configured,
                   processTasksCalled, pqProcCalls, existsCalls,
                   check_exists, calls,
                   results,
                   taskErrors, writes, saveOpts, saveState, wofsVars>>

\* CreateSink without the credential check
CreateSink_unverified ==
    /\ cmd = "run-pq" /\ pc = "sink"
    /\ sinkCreated' = TRUE
    /\ pc' = "stream"
    /\ UNCHANGED <<cmd, exitCode, failCause, lastExit, runOpts, tasks,
                   haveTasks, parserCalled, verifyCount, sink_creds,
                   streamCalled, stream_tasks, pos, client, s3Configured,
                   processTasksCalled, pqProcCalls, existsCalls,
                   check_exists, calls,
                   results,
                   taskErrors, writes, saveOpts, saveState, wofsVars>>

\* sink = S3COGSink(...); verify_s3_credentials() for an s3: location
CreateSink ==
    /\ cmd = "run-pq" /\ pc = "sink"
    /\ sinkCreated' = TRUE
    /\ IF location_s3
       THEN /\ verifyCount' = verifyCount + 1
            /\ \E ok \in BOOLEAN :
                IF ~ok
                THEN sink_creds' = "failed" /\ SysExit("credential", 2)
                ELSE /\ sink_creds' = "ok"
                     /\ pc' = "stream"
                     /\ UNCHANGED <<exitCode, failCause>>
       ELSE /\ pc' = "stream"
            /\ UNCHANGED <<verifyCount, sink_creds, exitCode, failCause>>
    /\ UNCHANGED <<cmd, lastExit, runOpts, tasks, haveTasks, parserCalled,
                   streamCalled, stream_tasks, pos, client, s3Configured,
                   processTasksCalled, pqProcCalls, existsCalls,
                   check_exists, calls,
                   results,
                   taskErrors, writes, saveOpts, saveState, wofsVars>>

\* _tasks = rdr.stream(tasks)
StreamTasks ==
    /\ cmd = "run-pq" /\ pc = "stream"
    /\ streamCalled' = TRUE
    /\ stream_tasks' = tasks
    /\ pc' = "client"
    /\ UNCHANGED <<cmd, exitCode, failCause, lastExit, runOpts, tasks,
                   haveTasks, parserCalled, sinkCreated, verifyCount,
                   sink_creds, pos,
                   client, s3Configured, processTasksCalled, pqProcCalls,
                   existsCalls,
                   check_exists, calls,
                   results, taskErrors, writes, saveOpts,
                   saveState, wofsVars>>

\* StartClient without the `if not dryrun` guard around the Dask cluster
StartClient_always ==
    /\ cmd = "run-pq" /\ pc = "client"
    /\ client' = "started" /\ s3Configured' = TRUE
    /\ processTasksCalled' = ~dryrun
    /\ check_exists' = IF ~overwrite THEN "True" ELSE "False"
    /\ pc' = "loop"
    /\ UNCHANGED <<cmd, exitCode, failCause, lastExit, runOpts, tasks,
                   haveTasks, parserCalled, sinkCreated, verifyCount,
                   sink_creds, streamCalled, stream_tasks, pos, pqProcCalls,
                   existsCalls, calls, results, taskErrors, writes, saveOpts,
                   saveState, wofsVars>>

\* StartClient passing check_s3=True / check_exists=True whatever
\* --overwrite says
StartClient_check_always ==
    /\ cmd = "run-pq" /\ pc = "client"
    /\ IF ~dryrun
       THEN client' = "started" /\ s3Configured' = TRUE
       ELSE UNCHANGED <<client, s3Configured>>
    /\ processTasksCalled' = ~dryrun
    /\ check_exists' = "True"
    /\ pc' = "loop"
    /\ UNCHANGED <<cmd, exitCode, failCause, lastExit, runOpts, tasks,
                   haveTasks, parserCalled, sinkCreated, verifyCount,
                   sink_creds, streamCalled, stream_tasks, pos, pqProcCalls,
                   existsCalls, calls, results, taskErrors, writes, saveOpts,
                   saveState, wofsVars>>

\* client = None; if not dryrun: start_local_dask, configure_s3_access
\* then `results` is bound to the lazy map(partial(dry_run_proc, sink=sink,
\* check_s3=not overwrite), _tasks) or to the process_tasks(...,
\* check_exists=not overwrite) generator
StartClient ==
    /\ cmd = "run-pq" /\ pc = "client"
    /\ IF ~dryrun
       THEN client' = "started" /\ s3Configured' = TRUE
       ELSE UNCHANGED <<client, s3Configured>>
    /\ processTasksCalled' = ~dryrun
    /\ check_exists' = IF ~overwrite THEN "True" ELSE "False"
    /\ pc' = "loop"
    /\ UNCHANGED <<cmd, exitCode, failCause, lastExit, runOpts, tasks,
                   haveTasks, parserCalled, sinkCreated, verifyCount,
                   sink_creds, streamCalled, stream_tasks, pos, pqProcCalls,
                   existsCalls, calls, results, taskErrors, writes, saveOpts,
                   saveState, wofsVars>>

\* dry_run_proc with the skip test inverted: skipped = exists is False
dry_run_proc_absent(task, check_s3, answer) ==
    LET exists == IF check_s3 THEN answer ELSE "None"
        flag == IF overwrite
                THEN CASE exists = "None" -> ""
                       [] exists = "True" -> " (recompute)"
                       [] exists = "False" -> " (new)"
                ELSE CASE exists = "None" -> ""
                       [] exists = "True" -> " (skip)"
                       [] exists = "False" -> " (new)"
    IN [task |-> task, exists |-> exists, flag |-> flag,
        skipped |-> (exists = "False"), failed |-> FALSE]

\* dry_run_proc(task, sink, check_s3), given what sink.exists answers
dry_run_proc(task, check_s3, answer) ==
    LET exists == IF check_s3 THEN answer ELSE "None"
        flag == IF overwrite
                THEN CASE exists = "None" -> ""
                       [] exists = "True" -> " (recompute)"
                       [] exists = "False" -> " (new)"
                ELSE CASE exists = "None" -> ""
                       [] exists = "True" -> " (skip)"
                       [] exists = "False" -> " (new)"
        skipped == IF overwrite THEN FALSE ELSE exists = "True"
    IN [task |-> task, exists |-> exists, flag |-> flag,
        skipped |-> skipped, failed |-> FALSE]

\* one turn of `for result in results` over map(dry_run_proc, _tasks):
\* sink.uri, sink.exists if check_s3, then the TaskResult
DryRunNext ==
    /\ cmd = "run-pq" /\ pc = "loop" /\ dryrun
    /\ pos < Len(stream_tasks)
    /\ LET task == stream_tasks[pos + 1]
           check_s3 == check_exists = "True"
       IN /\ pos' = pos + 1
          /\ existsCalls' = IF check_s3 THEN existsCalls + 1 ELSE existsCalls
          /\ \E answer \in {"True", "False", "raise"} :
               IF check_s3 /\ answer = "raise"
               THEN /\ taskErrors' = taskErrors \cup {task}
                    /\ calls' = <<"uri", "exists">>
                    /\ Uncaught
                    /\ UNCHANGED results
               ELSE /\ answer # "raise"
                    /\ calls' = IF check_s3
                                THEN <<"uri", "exists", "TaskResult">>
                                ELSE <<"uri", "TaskResult">>
                    /\ results' = Append(results,
                                         dry_run_proc(task, check_s3, answer))
                    /\ UNCHANGED <<taskErrors, pc, exitCode, failCause>>
    /\ UNCHANGED <<cmd, lastExit, runOpts, tasks, haveTasks, parserCalled,
                   sinkCreated, verifyCount, sink_creds, streamCalled,
                   stream_tasks, client, s3Configured, processTasksCalled,
                   pqProcCalls, check_exists, writes, saveOpts, saveState,
                   wofsVars>>

\* one turn of `for result in results` over process_tasks(_tasks, pq_proc,
\* client, sink, check_exists=not overwrite)
ProcessTasksNext ==
    /\ cmd = "run-pq" /\ pc = "loop" /\ ~dryrun
    /\ pos < Len(stream_tasks)
    /\ LET task == stream_tasks[pos + 1]
           check == check_exists = "True"
           Result(e, s, f) == [task |-> task, exists |-> e, flag |-> "",
                               skipped |-> s, failed |-> f]
       IN /\ pos' = pos + 1
          /\ existsCalls' = IF check THEN existsCalls + 1 ELSE existsCalls
          /\ \E answer \in {"True", "False", "raise"}, ok \in BOOLEAN :
               LET exists == IF check THEN answer ELSE "None" IN
               CASE exists = "raise" ->
                      /\ results' = Append(results, Result("None", FALSE, TRUE))
                      /\ taskErrors' = taskErrors \cup {task}
                      /\ UNCHANGED <<pqProcCalls, writes>>
                 [] exists = "True" ->
                      /\ results' = Append(results, Result("True", TRUE, FALSE))
                      /\ UNCHANGED <<pqProcCalls, writes, taskErrors>>
                 [] OTHER ->
                      /\ pqProcCalls' = pqProcCalls + 1
                      /\ IF ok
                         THEN /\ writes' = writes \cup {task}
                              /\ results' = Append(results,
                                               Result(exists, FALSE, FALSE))
                              /\ UNCHANGED taskErrors
                         ELSE /\ results' = Append(results,
                                               Result(exists, FALSE, TRUE))
                              /\ taskErrors' = taskErrors \cup {task}
                              /\ UNCHANGED writes
    /\ UNCHANGED <<procState, runOpts, tasks, haveTasks, parserCalled,
                   sinkCreated, verifyCount, sink_creds, streamCalled,
                   stream_tasks, client, s3Configured, processTasksCalled,
                   check_exists, calls, saveOpts, saveState, wofsVars>>

\* the loop is exhausted: if client is not None: client.close()
Finish ==
    /\ cmd = "run-pq" /\ pc = "loop"
    /\ pos = Len(stream_tasks)
    /\ client' = IF client # "none" THEN "closed" ELSE client
    /\ Return
    /\ UNCHANGED <<cmd, lastExit, runOpts, tasks, haveTasks, parserCalled,
                   sinkCreated, verifyCount, sink_creds, streamCalled,
                   stream_tasks, pos,
                   s3Configured, processTasksCalled, pqProcCalls, existsCalls,
                   check_exists, calls,
                   results, taskErrors, writes, saveOpts, saveState,
                   wofsVars>>

\* ============================================================ save-tasks
\* the command is entered: options bound
save_tasks ==
    /\ pc \in {"idle", "exit"}
    /\ cmd' = "save-tasks"
    /\ pc' = "options"
    /\ exitCode' = -1
    /\ failCause' = "none"
    /\ lastExit' = Remember
    /\ year' \in {"none", "given"}
    /\ temporal_range' \in {"none", "valid", "invalid"}
    /\ frequency' \in {"none", "valid", "invalid"}
    /\ dataset_filter' \in {"none", "valid", "invalid"}
    /\ destExists' = FALSE
    /\ overwrite' \in BOOLEAN
    /\ dryrun' = FALSE /\ location_s3' = FALSE
    /\ selectors' = <<>> /\ ncat' = 0
    /\ RunReset /\ SaveReset
    /\ UNCHANGED wofsVars

\* CheckOptions without the --year against --temporal-range check
CheckOptions_no_conflict ==
    /\ cmd = "save-tasks" /\ pc = "options"
    /\ CASE dataset_filter = "invalid" -> Uncaught
         [] dataset_filter # "invalid"
            /\ temporal_range = "invalid" ->
                SysExit("range_parse", 1)
         [] dataset_filter # "invalid"
            /\ temporal_range # "invalid"
            /\ frequency = "invalid" ->
                SysExit("frequency", 1)
         [] OTHER -> pc' = "ctor" /\ UNCHANGED <<exitCode, failCause>>
    /\ UNCHANGED <<cmd, lastExit, runOpts, runState, saveOpts, saveState,
                   wofsVars>>

\* json.loads(dataset_filter); --year against --temporal-range;
\* DateTimeRange(temporal_range); the frequency policy
CheckOptions ==
    /\ cmd = "save-tasks" /\ pc = "options"
    /\ CASE dataset_filter = "invalid" -> Uncaught
         [] dataset_filter # "invalid"
            /\ temporal_range # "none" /\ year # "none" ->
                SysExit("conflict", 1)
         [] dataset_filter # "invalid"
            /\ ~(temporal_range # "none" /\ year # "none")
            /\ temporal_range = "invalid" ->
                SysExit("range_parse", 1)
         [] dataset_filter # "invalid"
            /\ ~(temporal_range # "none" /\ year # "none")
            /\ temporal_range # "invalid"
            /\ frequency = "invalid" ->
                SysExit("frequency", 1)
         [] OTHER -> pc' = "ctor" /\ UNCHANGED <<exitCode, failCause>>
    /\ UNCHANGED <<cmd, lastExit, runOpts, runState, saveOpts, saveState,
                   wofsVars>>

\* try: tasks = SaveTasks(output, grid, ..., overwrite=overwrite, ...)
\* the constructor finds the destination present or absent
NewSaveTasks ==
    /\ cmd = "save-tasks" /\ pc = "ctor"
    /\ \E present \in BOOLEAN :
        /\ destExists' = present
        /\ IF SaveTasksInit(present, overwrite) = "ValueError"
           THEN SysExit("ctor", 1) /\ UNCHANGED tasksObj
           ELSE /\ tasksObj' = TRUE
                /\ pc' = "datacube"
                /\ UNCHANGED <<exitCode, failCause>>
    /\ UNCHANGED <<cmd, lastExit, runOpts, runState, year, temporal_range,
                   frequency, dataset_filter, dcOpened, saveCalled,
                   wofsVars>>

\* dc = Datacube(env=env)
OpenDatacube ==
    /\ cmd = "save-tasks" /\ pc = "datacube"
    /\ dcOpened' = TRUE
    /\ pc' = "save"
    /\ UNCHANGED <<cmd, exitCode, failCause, lastExit, runOpts, runState,
                   saveOpts, tasksObj, saveCalled, wofsVars>>

\* Save with one exit code for both of its failures
Save_one_code ==
    /\ cmd = "save-tasks" /\ pc = "save"
    /\ saveCalled' = TRUE
    /\ \E outcome \in {"ok", "not_ok", "ValueError"} :
         CASE outcome = "ValueError" -> SysExit("save_raise", 2)
           [] outcome = "not_ok" -> SysExit("save_notok", 2)
           [] OTHER -> Return
    /\ UNCHANGED <<cmd, lastExit, runOpts, runState, saveOpts, tasksObj,
                   dcOpened, wofsVars>>

\* try: ok = tasks.save(dc, products, ...) ... sys.exit(2); sys.exit(3)
Save ==
    /\ cmd = "save-tasks" /\ pc = "save"
    /\ saveCalled' = TRUE
    /\ \E outcome \in {"ok", "not_ok", "ValueError"} :
         CASE outcome = "ValueError" -> SysExit("save_raise", 2)
           [] outcome = "not_ok" -> SysExit("save_notok", 3)
           [] OTHER -> Return
    /\ UNCHANGED <<cmd, lastExit, runOpts, runState, saveOpts, tasksObj,
                   dcOpened, wofsVars>>

\* ====================================================== plugins/wofs.py
\* uint8 classifier bitmasks the model loads: dry, NODATA, Non Contiguous,
\* Terrain High Slope, Cloud, Water, Water with NODATA, Water under Cloud
WaterValues == {0, 1, 2, 16, 64, 128, 129, 192}

\* count values of an annual summary, next to the file's nodata value
CountValues == {0, 1, 32767}

\* nodata attribute of the full-history input bands
NodataAttrs == {-999, -1}

RECURSIVE BitAnd(_, _)
BitAnd(a, b) ==
    IF a = 0 \/ b = 0 THEN 0
    ELSE (a % 2) * (b % 2) + 2 * BitAnd(a \div 2, b \div 2)

\* int16 arithmetic: two's complement value of the low 16 bits of v
Wrap16(v) ==
    LET m == v % 65536 IN
    IF m >= 32768 THEN m - 65536 ELSE m

\* numexpr on int32, v >= 0: v << k keeps the low 32 - k bits of v, the
\* topmost of them becoming the sign; v >> k is the arithmetic shift
Shl32(v, k) ==
    LET low == v % (2 ^ (32 - k)) IN
    IF low >= 2 ^ (31 - k) THEN (low - 2 ^ (32 - k)) * (2 ^ k)
    ELSE low * (2 ^ k)
Sar32(v, k) == v \div (2 ^ k)

\* StatsWofs.BAD_BITS_MASK = 0b0110_1000
BAD_BITS_MASK == 104

\* binary_dilation(mask, radius) at one pixel whose neighbour within the
\* radius has mask value `near`
binary_dilation(own, near, radius) ==
    IF radius >= 1 THEN own \/ near ELSE own

\* StatsWofs.native_transform at one pixel: `water` is the pixel's bitmask,
\* `nbr` the bitmask of a pixel next to it
native_transform(water, nbr, dil) ==
    LET bad == IF dil # 0
               THEN binary_dilation(BitAnd(water, BAD_BITS_MASK) > 0,
                                    BitAnd(nbr, BAD_BITS_MASK) > 0, dil)
                    \/ BitAnd(water, 126) > 0
               ELSE BitAnd(water, 126) > 0
    IN [bad |-> bad,
        some |-> Sar32(Shl32(water, 30), 30) = 0,
        dry |-> water = 0,
        wet |-> water = 128]

\* odc.algo._masking._or_fuser: every variable OR-ed along the time axis
or_fuser(g) ==
    [bad |-> \E i \in 1..Len(g) : g[i].bad,
     some |-> \E i \in 1..Len(g) : g[i].some,
     dry |-> \E i \in 1..Len(g) : g[i].dry,
     wet |-> \E i \in 1..Len(g) : g[i].wet]

\* StatsWofs.fuser with `& (~bad)` left out of both expressions
fuser_bad_kept(g) ==
    LET m == or_fuser(g)
        wet == m.wet /\ ~m.dry
        dry == m.dry /\ ~m.wet
    IN [bad |-> m.bad, some |-> m.some, dry |-> dry, wet |-> wet]

\* StatsWofs.fuser over the observations of one solar day
fuser(g) ==
    LET m == or_fuser(g)
        wet == m.wet /\ ~m.dry /\ ~m.bad
        dry == m.dry /\ ~m.wet /\ ~m.bad
    IN [bad |-> m.bad, some |-> m.some, dry |-> dry, wet |-> wet]

RECURSIVE SumInt16(_)
\* .sum(axis=0, dtype="int16") of the values v along the time axis
SumInt16(v) ==
    IF v = <<>> THEN 0
    ELSE Wrap16(Head(v) + SumInt16(Tail(v)))

NaN == [nan |-> TRUE, num |-> 0, den |-> 1]

\* odc.algo.safe_div(x1, x2): x1 / x2, NaN where x2 is zero
safe_div(x1, x2) ==
    IF x2 = 0 THEN NaN ELSE [nan |-> FALSE, num |-> x1, den |-> x2]

\* odc.algo.keep_good_only(x, where, nodata): nodata where `where` is false
keep_good_only(x, where, nodata) == IF where THEN x ELSE nodata

B2I(b) == IF b THEN 1 ELSE 0

\* StatsWofs.reduce without the keep_good_only masking of the counts
StatsWofs_reduce_unmasked(s) ==
    LET count_wet == SumInt16([i \in 1..Len(s) |-> B2I(s[i].wet)])
        count_dry == SumInt16([i \in 1..Len(s) |-> B2I(s[i].dry)])
        count_clear == Wrap16(count_wet + count_dry)
    IN [count_wet |-> count_wet,
        count_clear |-> count_clear,
        frequency |-> safe_div(count_wet, count_clear)]

\* StatsWofs.reduce at one pixel of the time stack `s`
StatsWofs_reduce(s) ==
    LET nodata == -999
        count_some == SumInt16([i \in 1..Len(s) |-> B2I(s[i].some)])
        count_wet == SumInt16([i \in 1..Len(s) |-> B2I(s[i].wet)])
        count_dry == SumInt16([i \in 1..Len(s) |-> B2I(s[i].dry)])
        count_clear == Wrap16(count_wet + count_dry)
        freq == safe_div(count_wet, count_clear)
        is_ok == count_some > 0
    IN [count_wet |-> keep_good_only(count_wet, is_ok, nodata),
        count_clear |-> keep_good_only(count_clear, is_ok, nodata),
        frequency |-> freq]

\* StatsWofsFullHistory.reduce at one pixel of the stack `s` of summaries
StatsWofsFullHistory_reduce(s, nodata) ==
    LET missing == \A i \in 1..Len(s) : s[i].count_clear = nodata
        cc == SumInt16([i \in 1..Len(s) |->
                  IF s[i].count_clear = nodata THEN 0 ELSE s[i].count_clear])
        cw == SumInt16([i \in 1..Len(s) |->
                  IF s[i].count_wet = nodata THEN 0 ELSE s[i].count_wet])
        freq == IF cc = 0 THEN NaN
                     ELSE [nan |-> FALSE, num |-> cw, den |-> cc]
    IN [count_wet |-> IF missing THEN nodata ELSE cw,
        count_clear |-> IF missing THEN nodata ELSE cc,
        frequency |-> freq]

\* a water observation is loaded and transformed: one more of this solar day
LoadObservation ==
    /\ plugin = "wofs-summary" /\ wstage = "load"
    /\ Len(group) < MaxGroup /\ Len(xx) < MaxDays
    /\ \E water \in WaterValues, nbr \in WaterValues :
         /\ water_in' = water
         /\ group' = Append(group, native_transform(water, nbr, dilation))
    /\ UNCHANGED <<cliVars, plugin, wstage, dilation, xx, nodata_attr, yy>>

\* the day's observations are fused into one layer of the time stack
FuseDay ==
    /\ plugin = "wofs-summary" /\ wstage = "load"
    /\ Len(group) >= 1 /\ Len(xx) < MaxDays
    /\ xx' = Append(xx, fuser(group))
    /\ group' = <<>>
    /\ UNCHANGED <<cliVars, plugin, wstage, dilation, water_in, nodata_attr,
                   yy>>

\* StatsWofs.reduce over the stack of fused days
Reduce ==
    /\ plugin = "wofs-summary" /\ wstage = "load"
    /\ Len(xx) >= 1 /\ group = <<>>
    /\ yy' = StatsWofs_reduce(xx)
    /\ wstage' = "reduced"
    /\ UNCHANGED <<cliVars, plugin, dilation, water_in, group, xx,
                   nodata_attr>>

\* StatsWofsFullHistory.input_data: one more summary in the stack
LoadSummary ==
    /\ plugin = "wofs-summary-fh" /\ wstage = "load"
    /\ Len(xx) < MaxDays
    /\ \E cw \in CountValues \cup {nodata_attr},
          cc \in CountValues \cup {nodata_attr} :
         xx' = Append(xx, [count_wet |-> cw, count_clear |-> cc])
    /\ UNCHANGED <<cliVars, plugin, wstage, dilation, water_in, group,
                   nodata_attr, yy>>

\* StatsWofsFullHistory.reduce over the stack of summaries
ReduceFH ==
    /\ plugin = "wofs-summary-fh" /\ wstage = "load"
    /\ Len(xx) >= 1
    /\ yy' = StatsWofsFullHistory_reduce(xx, nodata_attr)
    /\ wstage' = "reduced"
    /\ UNCHANGED <<cliVars, plugin, dilation, water_in, group, xx,
                   nodata_attr>>

\* a task of one of the two plugins, nothing loaded yet
InitWofs ==
    /\ CliIdle
    /\ wstage = "load" /\ water_in = 0
    /\ group = <<>> /\ xx = <<>>
    /\ yy = [count_wet |-> 0, count_clear |-> 0, frequency |-> NaN]
    /\ \/ /\ plugin = "wofs-summary"
          /\ dilation \in {0, 1}
          /\ nodata_attr = -999
       \/ /\ plugin = "wofs-summary-fh"
          /\ dilation = 0
          /\ nodata_attr \in NodataAttrs

NextWofs ==
    \/ LoadObservation
    \/ FuseDay
    \/ Reduce
    \/ LoadSummary
    \/ ReduceFH

SpecWofs == InitWofs /\ [][NextWofs]_vars

\* ======================================================= specification
Init == CliIdle /\ WofsIdle

Next ==
    \/ run_pq
    \/ SelectTasks
    \/ CreateSink
    \/ StreamTasks
    \/ StartClient
    \/ DryRunNext
    \/ ProcessTasksNext
    \/ Finish
    \/ save_tasks
    \/ CheckOptions
    \/ NewSaveTasks
    \/ OpenDatacube
    \/ Save

Spec == Init /\ [][Next]_vars

\* ============================================================= properties
\* C1: in a dry run every TaskResult has skipped = TRUE exactly when
\* overwrite was not requested and the existence check answered true, and
\* skipped = FALSE for every other answer (unknown, true under overwrite,
\* false); no output is written in any case.
DryRunSkippedIffExists ==
    (cmd = "run-pq" /\ dryrun) =>
        /\ \A i \in 1..Len(results) :
              results[i].skipped <=>
                  (~overwrite /\ results[i].exists = "True")
        /\ writes = {}

\* a dry run without overwrite reported one task as skipped (output exists)
\* and another as not skipped (output absent)
DryRunSkippedWitness ==
    /\ cmd = "run-pq" /\ dryrun /\ ~overwrite
    /\ \E i, j \in 1..Len(results) :
          /\ results[i].exists = "True" /\ results[i].skipped
          /\ results[j].exists = "False" /\ ~results[j].skipped

\* C2: when parse_all_tasks raises ValueError the run exits non-zero with
\* nothing started: no sink, no credential check, no stream, no client, no
\* task processed, and `tasks` never holds a partial list; a run never goes
\* past the selection with selectors that do not parse.
SelectorErrorAbortsFirst ==
    /\ failCause = "selector" =>
          /\ pc = "exit" /\ exitCode # 0
          /\ ~haveTasks /\ tasks = <<>>
          /\ ~sinkCreated /\ verifyCount = 0 /\ sink_creds = "none"
          /\ ~streamCalled /\ stream_tasks = <<>> /\ pos = 0
          /\ client = "none" /\ ~s3Configured /\ ~processTasksCalled
          /\ pqProcCalls = 0 /\ existsCalls = 0
          /\ results = <<>> /\ writes = {}
    /\ (cmd = "run-pq" /\ parserCalled
        /\ \E i \in 1..Len(selectors) :
              selectors[i] < 0 \/ selectors[i] >= ncat) =>
          failCause = "selector"

\* a selector list whose first token is a valid index and whose second is
\* not was refused as a whole
SelectorErrorWitness ==
    /\ failCause = "selector" /\ pc = "exit"
    /\ Len(selectors) = 2
    /\ selectors[1] >= 0 /\ selectors[1] < ncat
    /\ selectors[2] >= ncat

\* C3: for an s3: location the credentials are verified once per run, before
\* any task is streamed or executed, never a second time, and never for a
\* local location; a failed verification ends the run with a non-zero exit,
\* no task streamed or executed and no compute client started.
CredentialsVerifiedOnceFirst ==
    cmd = "run-pq" =>
        /\ verifyCount <= 1
        /\ ~location_s3 => verifyCount = 0
        /\ (location_s3 /\ (streamCalled \/ pos > 0 \/ results # <<>>
                            \/ client # "none" \/ processTasksCalled
                            \/ pc \in {"stream", "client", "loop"})) =>
              (verifyCount = 1 /\ sink_creds = "ok")
        /\ sink_creds = "failed" =>
              /\ pc = "exit" /\ exitCode # 0 /\ failCause = "credential"
              /\ ~streamCalled /\ pos = 0 /\ results = <<>>
              /\ taskErrors = {} /\ pqProcCalls = 0 /\ existsCalls = 0
              /\ client = "none" /\ ~processTasksCalled /\ writes = {}

\* a run on an s3: location with two selected tasks ended on the failed
\* credential check
CredentialsWitness ==
    /\ cmd = "run-pq" /\ location_s3 /\ sink_creds = "failed"
    /\ Len(tasks) = 2 /\ pc = "exit"

\* C4: fuser is associative and commutative: for same-day observations
\* a, b, c every order gives the same layers and every grouping gives the
\* same layers: fuser(fuser(a,b),c) = fuser(a,fuser(b,c)) = fuser(a,b,c).
FuserAssociativeCommutative ==
    (plugin = "wofs-summary" /\ Len(group) = 3) =>
        LET a == group[1]
            b == group[2]
            c == group[3]
        IN /\ fuser(<<a, b, c>>) = fuser(<<b, a, c>>)
           /\ fuser(<<a, b, c>>) = fuser(<<c, b, a>>)
           /\ fuser(<<a, b, c>>) = fuser(<<a, c, b>>)
           /\ fuser(<<a, b>>) = fuser(<<b, a>>)
           /\ fuser(<<fuser(<<a, b>>), c>>) = fuser(<<a, fuser(<<b, c>>)>>)
           /\ fuser(<<fuser(<<a, b>>), c>>) = fuser(<<a, b, c>>)

\* a pixel is missing from the stack given to reduce
Missing ==
    IF plugin = "wofs-summary"
    THEN \A i \in 1..Len(xx) : ~xx[i].some
    ELSE \A i \in 1..Len(xx) : xx[i].count_clear = nodata_attr

\* C5: a pixel with no non-missing observation in the stack given to reduce
\* (StatsWofs: `some` false in every layer; StatsWofsFullHistory: count_clear
\* equal to nodata in every input) has nodata in count_wet and count_clear
\* and NaN in frequency, whatever its other layers hold.
ReduceNodataInvariant ==
    (wstage = "reduced" /\ Missing) =>
        LET nodata == IF plugin = "wofs-summary" THEN -999 ELSE nodata_attr
        IN /\ yy.count_wet = nodata
           /\ yy.count_clear = nodata
           /\ yy.frequency.nan

\* reduce ran on a two-layer stack of a pixel never observed: a StatsWofs
\* pixel that is bad in one layer, or a full-history pixel whose count_wet
\* holds a count
ReduceNodataWitness ==
    /\ wstage = "reduced" /\ Missing /\ Len(xx) = 2
    /\ \/ plugin = "wofs-summary" /\ xx[1].bad /\ ~xx[2].bad
       \/ plugin = "wofs-summary-fh" /\ xx[1].count_wet = 1

\* C6: a task whose handling raises (its observations do not load, its
\* existence check fails) fails alone: the error is caught, the task gets a
\* failed result, every remaining task of the stream is still processed and
\* the run is not aborted.
TaskFailureIsolated ==
    (cmd = "run-pq" /\ taskErrors # {}) =>
        /\ failCause # "uncaught"
        /\ \A t \in taskErrors :
              \E i \in 1..Len(results) :
                  results[i].task = t /\ results[i].failed
        /\ pc = "exit" => Len(results) = Len(stream_tasks)

SaveTasksChecksBeforeQuery ==
    cmd = "save-tasks" =>
        /\ failCause \in {"conflict", "range_parse", "frequency", "ctor"} =>
              /\ pc = "exit" /\ exitCode # 0
              /\ ~dcOpened /\ ~saveCalled
        /\ (dcOpened \/ saveCalled \/ pc \in {"datacube", "save"}) =>
              /\ ~(year # "none" /\ temporal_range # "none")
              /\ temporal_range # "invalid"
              /\ frequency # "invalid"
              /\ ~(destExists /\ ~overwrite)
              /\ tasksObj

\* save-tasks was refused for an existing destination
SaveTasksChecksWitness ==
    /\ cmd = "save-tasks" /\ pc = "exit" /\ failCause = "ctor"
    /\ destExists /\ ~overwrite /\ frequency = "valid"

FatalClasses == {"selector/parse", "credential", "catalog_save"}

\* C9: every fatal path exits non-zero, and selector/parse errors,
\* credential errors and catalog save failures use pairwise distinct exit
\* codes: no code is shared by two classes (here: by this invocation and
\* the one before it).
ExitCodeDistinguishesClass ==
    /\ (pc = "exit" /\ failCause # "none") => exitCode # 0
    /\ (pc = "exit" /\ Remember.class \in FatalClasses
        /\ lastExit.class \in FatalClasses
        /\ Remember.class # lastExit.class) =>
          Remember.code # lastExit.code

\* C9 as amended: every fatal path exits non-zero; run-pq exits 1 on a
\* selector error and 2 on a credential error; save-tasks exits 1 on
\* conflicting options, an unparsable range, an invalid frequency and a
\* failing catalog writer construction, 2 when save raises, 3 when save
\* returns not-ok; a run that returns exits 0.
ExitCodeByFatalPath ==
    pc = "exit" =>
        /\ failCause # "none" <=> exitCode # 0
        /\ failCause = "selector" => (cmd = "run-pq" /\ exitCode = 1)
        /\ failCause = "credential" => (cmd = "run-pq" /\ exitCode = 2)
        /\ failCause \in {"conflict", "range_parse", "frequency", "ctor"} =>
              (cmd = "save-tasks" /\ exitCode = 1)
        /\ failCause = "save_raise" => (cmd = "save-tasks" /\ exitCode = 2)
        /\ failCause = "save_notok" => (cmd = "save-tasks" /\ exitCode = 3)

\* save-tasks exits 2 because save raised, right after a run-pq that exited
\* 2 on its credential check
ExitCodeWitness ==
    /\ pc = "exit" /\ failCause = "save_raise" /\ exitCode = 2
    /\ lastExit = [class |-> "credential", code |-> 2]

\* C10: with no selector the tasks handed to rdr.stream are all tasks of
\* the catalog file, indexes 0..N-1, each once and in catalog order, and
\* parse_all_tasks is not invoked, so no selector error can end the run.
NoSelectorMeansAllTasks ==
    (cmd = "run-pq" /\ pc # "select" /\ selectors = <<>>) =>
        /\ ~parserCalled /\ failCause # "selector"
        /\ haveTasks /\ Len(tasks) = ncat
        /\ \A i \in 1..Len(tasks) : tasks[i] = i - 1
        /\ streamCalled =>
              /\ Len(stream_tasks) = ncat
              /\ \A i \in 1..Len(stream_tasks) : stream_tasks[i] = i - 1

\* a run without selectors on a catalog of two tasks streamed both
NoSelectorWitness ==
    /\ cmd = "run-pq" /\ selectors = <<>> /\ ncat = 2
    /\ streamCalled /\ pos = 2 /\ Len(results) = 2

\* C11: for every uint8 bitmask and every dilation setting the output of
\* native_transform has wet only where the pixel is classified wet
\* (water == 128) and is not bad, and dry only where it is classified dry
\* (water == 0) and is not bad: no pixel is wet and bad, or dry and bad.
NativeTransformClearOfBad ==
    (plugin = "wofs-summary" /\ Len(group) >= 1) =>
        LET out == group[Len(group)] IN
        /\ out.wet => (water_in = 128 /\ ~out.bad)
        /\ out.dry => (water_in = 0 /\ ~out.bad)

\* C12: fuser gives wet, dry and bad mutually exclusive at every pixel: with
\* bad, wet, dry, some of the day's observations merged by OR, bad forces
\* wet' = dry' = FALSE, wet and dry together force wet' = dry' = FALSE,
\* otherwise wet' = wet and dry' = dry; the output bad and some are the OR
\* of the inputs' bad and some.
FuserExclusive ==
    [][(plugin = "wofs-summary" /\ Len(xx') = Len(xx) + 1) =>
        LET g == group
            out == xx'[Len(xx')]
            bad == \E i \in 1..Len(g) : g[i].bad
            some == \E i \in 1..Len(g) : g[i].some
            wet == \E i \in 1..Len(g) : g[i].wet
            dry == \E i \in 1..Len(g) : g[i].dry
        IN /\ out.bad = bad
           /\ out.some = some
           /\ bad => (~out.wet /\ ~out.dry)
           /\ (~bad /\ wet /\ dry) => (~out.wet /\ ~out.dry)
           /\ (~bad /\ ~(wet /\ dry)) => (out.wet = wet /\ out.dry = dry)
           /\ ~(out.wet /\ out.dry)
           /\ ~(out.wet /\ out.bad)
           /\ ~(out.dry /\ out.bad)
      ]_vars

\* two days were fused: one where a wet and a dry observation met (neither
\* wet nor dry is left), one where a wet observation met a bad one
FuserExclusiveWitness ==
    /\ plugin = "wofs-summary" /\ Len(xx) = 2
    /\ xx[1].some /\ ~xx[1].bad /\ ~xx[1].wet /\ ~xx[1].dry
    /\ xx[2].bad /\ xx[2].some /\ ~xx[2].wet /\ ~xx[2].dry

\* C13: run-pq checks output existence exactly when --overwrite is not
\* given. With --overwrite: a dry run never calls sink.exists, exists stays
\* unknown and neither " (skip)" nor " (recompute)" is reported; the real run
\* passes check_exists=False to process_tasks. Without --overwrite: the real
\* run passes check_exists=True, and a dry run calls sink.exists once for
\* every task it pulls, after sink.uri and before the TaskResult is made.
ExistenceCheckedIffNoOverwrite ==
    (cmd = "run-pq" /\ pc \in {"loop", "exit"} /\ streamCalled
     /\ check_exists # "unset") =>
        /\ check_exists = (IF overwrite THEN "False" ELSE "True")
        /\ (dryrun /\ overwrite) =>
              /\ existsCalls = 0
              /\ calls \in {<<>>, <<"uri", "TaskResult">>}
              /\ \A i \in 1..Len(results) :
                    results[i].exists = "None" /\ results[i].flag = ""
        /\ (dryrun /\ ~overwrite) =>
              /\ existsCalls = pos
              /\ calls \in {<<>>, <<"uri", "exists">>,
                            <<"uri", "exists", "TaskResult">>}
              /\ Len(results) <= existsCalls
              /\ \A i \in 1..Len(results) :
                    results[i].exists \in {"True", "False"}
        /\ (processTasksCalled /\ overwrite) => existsCalls = 0

\* a dry run without --overwrite checked both of its tasks
ExistenceCheckedWitness ==
    /\ cmd = "run-pq" /\ dryrun /\ ~overwrite
    /\ existsCalls = 2 /\ Len(results) = 2
    /\ calls = <<"uri", "exists", "TaskResult">>

====
